---- MODULE Spec2Model ----
(***************************************************************************)
(* A model of scripts/room-poll-check.py: one polling pass over the        *)
(* configured rooms (main), the persisted id sets, the listen filter, the  *)
(* task-request detector, the ack poster and the inbox file.               *)
(*                                                                         *)
(* Text is modelled as a sequence of one-character strings, so that        *)
(* lower(), strip(), lstrip("@"), slicing, substring tests and the         *)
(* mention regular expression are computed, not assumed.                   *)
(***************************************************************************)
EXTENDS Naturals, Sequences, FiniteSets

(***************************************************************************)
(* Text helpers (Python str operations used by the script).                *)
(***************************************************************************)
\* string.ascii_uppercase / ascii_lowercase / digits, as used by str.lower() and the regex class
UPPER == <<"A", "B", "C", "D", "E", "F", "G", "H", "I", "J", "K", "L", "M", "N", "O", "P", "Q", "R", "S", "T", "U", "V", "W", "X", "Y", "Z">>
LOWER == <<"a", "b", "c", "d", "e", "f", "g", "h", "i", "j", "k", "l", "m", "n", "o", "p", "q", "r", "s", "t", "u", "v", "w", "x", "y", "z">>
DIGITS == <<"0", "1", "2", "3", "4", "5", "6", "7", "8", "9">>

Range(s) == { s[i] : i \in 1..Len(s) }

Min(a, b) == IF a <= b THEN a ELSE b

\* str.lower() on one character
LowerChar(c) ==
    IF \E i \in 1..Len(UPPER) : UPPER[i] = c
    THEN LOWER[CHOOSE i \in 1..Len(UPPER) : UPPER[i] = c]
    ELSE c

\* str.lower()
Lower(s) == [i \in 1..Len(s) |-> LowerChar(s[i])]

\* s[:n]
Take(s, n) == SubSeq(s, 1, Min(n, Len(s)))

\* pat in s  (substring test)
Contains(s, pat) ==
    \E i \in 0..Len(s) :
        /\ i + Len(pat) <= Len(s)
        /\ SubSeq(s, i + 1, i + Len(pat)) = pat

\* characters removed by str.strip() with no argument
WHITESPACE == {" ", "\t", "\n", "\r"}

RECURSIVE LStripChars(_, _)
\* str.lstrip(chars)
LStripChars(s, chars) ==
    IF s # <<>> /\ Head(s) \in chars THEN LStripChars(Tail(s), chars) ELSE s

RECURSIVE RStripChars(_, _)
\* str.rstrip(chars)
RStripChars(s, chars) ==
    IF s # <<>> /\ s[Len(s)] \in chars
    THEN RStripChars(SubSeq(s, 1, Len(s) - 1), chars)
    ELSE s

\* str.strip()
Strip(s) == RStripChars(LStripChars(s, WHITESPACE), WHITESPACE)

\* str.startswith("@")
StartsWithAt(s) == s # <<>> /\ Head(s) = "@"

\* the character class [a-zA-Z0-9_.-] of the mention pattern
MentionChars == Range(UPPER) \cup Range(LOWER) \cup Range(DIGITS) \cup {"_", ".", "-"}

(***************************************************************************)
(* Configuration read from the environment at import.  The handles are the *)
(* script's defaults; BOT_HANDLES is given one entry so that the list      *)
(* lookup of _is_bot is exercised.  LISTEN_MODE, ACK_ENABLED and API_KEY   *)
(* are state variables fixed by Init, so that every policy is explored.    *)
(***************************************************************************)
OWNER_HANDLE == <<"p", "e", "t", "r", "u", "s">>
TARGET_HANDLE == <<"@", "c", "l", "a", "u", "d", "e", "m", "m">>
MY_HANDLES == << <<"@", "c", "l", "a", "u", "d", "e", "m", "m">>, <<"c", "l", "a", "u", "d", "e", "m", "m">> >>
BOT_HANDLES == << <<"@", "B", "u", "i", "l", "d", "B", "o", "t">> >>

TASK_HINTS ==
    { <<"c", "a", "n", " ", "y", "o", "u">>,
      <<"p", "l", "e", "a", "s", "e">>,
      <<"n", "e", "e", "d", " ", "t", "o">>,
      <<"c", "h", "e", "c", "k">>,
      <<"f", "i", "x">>,
      <<"u", "p", "d", "a", "t", "e">>,
      <<"r", "e", "v", "i", "e", "w">>,
      <<"r", "u", "n">>,
      <<"d", "e", "p", "l", "o", "y">>,
      <<"i", "m", "p", "l", "e", "m", "e", "n", "t">>,
      <<"t", "e", "s", "t">>,
      <<"r", "e", "s", "t", "a", "r", "t">>,
      <<"i", "n", "s", "t", "a", "l", "l">>,
      <<"r", "e", "s", "p", "o", "n", "d">>,
      <<"p", "o", "s", "t">>,
      <<"p", "u", "l", "l">>,
      <<"p", "u", "s", "h">>,
      <<"m", "e", "r", "g", "e">> }

\* the two rooms polled, in order (IAK_ROOMS)
ROOMS == << <<"d", "e", "v">>, <<"o", "p", "s">> >>

\* str(msg.get("body", ""))[:1000] and body[:400] in the inbox line, created_at[:19]
BODY_LIMIT == 1000
DISPLAY_LIMIT == 400
TS_LIMIT == 19

(***************************************************************************)
(* Pure predicates.                                                        *)
(***************************************************************************)
RECURSIVE MentionEnd(_, _)
\* the greedy match of [a-zA-Z0-9_.-]+ starting at i: the first index after the run
MentionEnd(text, i) ==
    IF i <= Len(text) /\ text[i] \in MentionChars THEN MentionEnd(text, i + 1) ELSE i

RECURSIVE FindMentions(_, _)
\* re.findall(r"@([a-zA-Z0-9_.-]+)", text) from index i on: non-overlapping, left to right
FindMentions(text, i) ==
    IF i > Len(text) THEN <<>>
    ELSE IF text[i] = "@" /\ MentionEnd(text, i + 1) > i + 1
         THEN <<Lower(SubSeq(text, i + 1, MentionEnd(text, i + 1) - 1))>>
                  \o FindMentions(text, MentionEnd(text, i + 1))
         ELSE FindMentions(text, i + 1)

_extract_mentions(text) == FindMentions(text, 1)

\* {h.lower().lstrip("@") for h in MY_HANDLES}
MyShort == { LStripChars(Lower(MY_HANDLES[i]), {"@"}) : i \in 1..Len(MY_HANDLES) }

_is_bot(handle, author_handle) ==
    LET h == LStripChars(Lower(IF author_handle # <<>> THEN author_handle ELSE handle), {"@"})
    IN  \/ /\ BOT_HANDLES # <<>>
           /\ h \in { LStripChars(Lower(BOT_HANDLES[i]), {"@"}) : i \in 1..Len(BOT_HANDLES) }
        \/ StartsWithAt(handle)

\* OWNER_HANDLE in str(author_handle).lower() or OWNER_HANDLE in str(handle).lower()
FromOwner(handle, author_handle) ==
    Contains(Lower(author_handle), OWNER_HANDLE) \/ Contains(Lower(handle), OWNER_HANDLE)

\* a listen filter that rejects every message under a mode it does not know
ListenFilterRejectsUnknownMode(mode, handle, author_handle, body) ==
    IF mode = "all" THEN TRUE
    ELSE IF mode = "humans" THEN ~_is_bot(handle, author_handle)
    ELSE IF mode = "tagged"
         THEN \E m \in Range(_extract_mentions(body)) : m \in MyShort
    ELSE IF mode = "owner" THEN FromOwner(handle, author_handle)
    ELSE FALSE

_passes_listen_filter(mode, handle, author_handle, body) ==
    IF mode = "all" THEN TRUE
    ELSE IF mode = "humans" THEN ~_is_bot(handle, author_handle)
    ELSE IF mode = "tagged"
         THEN \E m \in Range(_extract_mentions(body)) : m \in MyShort
    ELSE IF mode = "owner" THEN FromOwner(handle, author_handle)
    ELSE TRUE

\* a targeting test without the permissive default of line 97
TargetsMeOnlyWhenMentioned(body) ==
    \E m \in Range(_extract_mentions(body)) : m \in MyShort

_message_targets_me(body) ==
    LET mentions == _extract_mentions(body)
    IN  IF mentions # <<>> THEN \E m \in Range(mentions) : m \in MyShort ELSE TRUE

_looks_like_task_request(body) ==
    LET text == Lower(Strip(body))
    IN  IF text = <<>> THEN FALSE ELSE \E hint \in TASK_HINTS : Contains(text, hint)

_should_ack(handle, author_handle, body) ==
    IF ~FromOwner(handle, author_handle) THEN FALSE
    ELSE IF ~_message_targets_me(body) THEN FALSE
    ELSE _looks_like_task_request(body)

\* a self filter that forgets the author handle
IsOwnMessageHandleOnly(handle, author_handle) == handle \in Range(MY_HANDLES)

\* line 170: author_handle in MY_HANDLES or handle in MY_HANDLES (exact, case-sensitive)
IsOwnMessage(handle, author_handle) ==
    author_handle \in Range(MY_HANDLES) \/ handle \in Range(MY_HANDLES)

(***************************************************************************)
(* The messages the server holds.  Each room's list is static during a     *)
(* behaviour; Init picks it among MsgLists.                                *)
(***************************************************************************)
MsgOwnerTask ==
    [ id |-> <<"1">>, from |-> <<"p", "e", "t", "r", "u", "s">>, hasAuthor |-> FALSE,
      author |-> <<>>,
      body |-> <<"p", "l", "e", "a", "s", "e", " ", "f", "i", "x", " ", "t", "h", "e", " ", "b", "u", "i", "l", "d">>,
      created_at |-> <<"2", "0", "2", "6", "-", "0", "1", "-", "0", "5", "T", "1", "0", ":", "0", "0", ":", "0", "0", ".", "1", "2", "3", "Z">> ]
MsgSelf ==
    [ id |-> <<"2">>, from |-> <<"@", "c", "l", "a", "u", "d", "e", "m", "m">>, hasAuthor |-> FALSE,
      author |-> <<>>,
      body |-> <<"c", "a", "n", " ", "y", "o", "u", " ", "c", "h", "e", "c", "k">>,
      created_at |-> <<"2", "0", "2", "6", "-", "0", "1", "-", "0", "5", "T", "1", "0", ":", "0", "1", ":", "0", "0", "Z">> ]
MsgSelfAuthor ==
    [ id |-> <<"3">>, from |-> <<"P", "e", "t", "r", "u", "s">>, hasAuthor |-> TRUE,
      author |-> <<"c", "l", "a", "u", "d", "e", "m", "m">>,
      body |-> <<"p", "l", "e", "a", "s", "e", " ", "r", "u", "n", " ", "t", "e", "s", "t", "s">>,
      created_at |-> <<"2", "0", "2", "6", "-", "0", "1", "-", "0", "5", "T", "1", "0", ":", "0", "2", ":", "0", "0", "Z">> ]
MsgTagged ==
    [ id |-> <<"4">>, from |-> <<"a", "l", "i", "c", "e">>, hasAuthor |-> TRUE,
      author |-> <<"a", "l", "i", "c", "e">>,
      body |-> <<"h", "i", " ", "@", "C", "l", "a", "u", "d", "e", "M", "M">>,
      created_at |-> <<"2", "0", "2", "6", "-", "0", "1", "-", "0", "5", "T", "1", "0", ":", "0", "3", ":", "0", "0", "Z">> ]
MsgBot ==
    [ id |-> <<"5">>, from |-> <<"@", "o", "t", "h", "e", "r", "b", "o", "t">>, hasAuthor |-> FALSE,
      author |-> <<>>,
      body |-> <<"h", "e", "l", "l", "o">>,
      created_at |-> <<"2", "0", "2", "6", "-", "0", "1", "-", "0", "5", "T", "1", "0", ":", "0", "4", ":", "0", "0", "Z">> ]
MsgNoId ==
    [ id |-> <<" ", " ">>, from |-> <<"a", "l", "i", "c", "e">>, hasAuthor |-> FALSE,
      author |-> <<>>,
      body |-> <<"p", "l", "e", "a", "s", "e", " ", "r", "e", "v", "i", "e", "w">>,
      created_at |-> <<>> ]
MsgDupId ==
    [ id |-> <<" ", "1">>, from |-> <<"b", "o", "b">>, hasAuthor |-> TRUE,
      author |-> <<"P", "E", "T", "R", "U", "S", ".", "V">>,
      body |-> <<"@", "o", "t", "h", "e", "r", "b", "o", "t", " ", "p", "l", "e", "a", "s", "e", " ", "d", "e", "p", "l", "o", "y">>,
      created_at |-> <<"2", "0", "2", "6", "-", "0", "1", "-", "0", "5", "T", "1", "0", ":", "0", "5", ":", "0", "0", "Z">> ]

\* the lists a room may hold; a scene gives each room one of them
MsgLists ==
    << <<>>,
       <<MsgOwnerTask>>,
       <<MsgSelfAuthor, MsgTagged>>,
       <<MsgDupId>>,
       <<MsgNoId, MsgSelf>>,
       <<MsgBot>> >>

RoomIdx == 1..Len(ROOMS)

LISTEN_MODES == {"all", "humans", "tagged", "owner", "everyone"}

\* what the fetch's curl can hand back: a JSON object with a messages list, blank
\* output, text that is not JSON, a top-level JSON array, a JSON object without
\* "messages", or no answer within the timeout
Responses == {"ok", "blank", "nonjson", "array", "nokey", "timeout"}

\* what the post's curl can do: succeed, exit non-zero (check=False), or time out
PostOutcomes == {"sent", "curl_error", "timeout"}

\* what opening a file for writing can do
IoOutcomes == {"ok", "oserror"}

(***************************************************************************)
(* Bounds of the model.                                                    *)
(***************************************************************************)
\* invocations of the script the scheduler starts in a behaviour
MaxPasses == 2

\* keep_last of _save_id_set; main passes 1000, the model scales it down.  It stays
\* at least the number of messages a pass can fetch, as 1000 is to ROOMS x FETCH_LIMIT
KeepLast == 3

Procs == {1, 2}

\* identifiers recorded by passes before the behaviour starts, oldest first
OldIds(n) == [i \in 1..n |-> <<"o", DIGITS[i + 1]>>]

VARIABLES
    API_KEY,      \* whether a credential is configured (line 15)
    LISTEN_MODE,  \* line 31
    ACK_ENABLED,  \* line 28
    scene,        \* room index -> index in MsgLists: the messages the server holds
    SEEN_FILE,    \* the lines of the seen file
    ACKED_FILE,   \* the lines of the acked file
    NEW_FILE,     \* the inbox file: the sequence of lines written to it
    proc,         \* per invocation: pc, seen, acked, new_msgs, room, msgs, stdout, exit
    posts,        \* history: the calls of _post_ack, in order
    inboxSrc,     \* history: for each inbox entry, in file order, the message it came from
    fileOrder,    \* history: the ids of each id file, in order of insertion
    hist,         \* history, per invocation, of the current pass
    probe         \* one call of a predicate on its own: the arguments and the value returned

vars ==
    <<API_KEY, LISTEN_MODE, ACK_ENABLED, scene, SEEN_FILE, ACKED_FILE, NEW_FILE,
      proc, posts, inboxSrc, fileOrder, hist, probe>>

\* what no step of an invocation changes
cfgvars == <<API_KEY, LISTEN_MODE, ACK_ENABLED, scene, probe>>

ServerMsgs(r) == MsgLists[scene[r]]

(***************************************************************************)
(* The persisted id sets.                                                  *)
(***************************************************************************)
RECURSIVE SplitLines(_)
\* the lines that f.write(v + "\n") puts in the file
SplitLines(v) ==
    IF \E i \in 1..Len(v) : v[i] = "\n"
    THEN LET i == CHOOSE j \in 1..Len(v) : v[j] = "\n" /\ \A k \in 1..(j - 1) : v[k] # "\n"
         IN  {SubSeq(v, 1, i - 1)} \cup SplitLines(SubSeq(v, i + 1, Len(v)))
    ELSE {v}

FileLines(ids) == UNION { SplitLines(v) : v \in ids }

\* {line.strip() for line in f if line.strip()}; a missing file reads as no lines
_load_id_set(lines) == { Strip(l) : l \in lines } \ {<<>>}

\* a save that keeps one identifier fewer than keep_last: list(values)[-(keep_last - 1):]
SaveIdSetOffByOne(values, keep_last) ==
    IF Cardinality(values) < keep_last
    THEN {values}
    ELSE { kept \in SUBSET values : Cardinality(kept) = keep_last - 1 }

\* list(values)[-keep_last:] of a set: the iteration order of a set of strings is
\* not the insertion order (it follows the per-process string hash), so the tail
\* may be any keep_last of the values.  The result is the set of possible contents.
_save_id_set(values, keep_last) ==
    IF Cardinality(values) <= keep_last
    THEN {values}
    ELSE { kept \in SUBSET values : Cardinality(kept) = keep_last }

\* the subsequence of s of the elements in S
Restrict(s, S) == SelectSeq(s, LAMBDA x : x \in S)

\* s[-n:]
LastN(s, n) == IF Len(s) <= n THEN s ELSE SubSeq(s, Len(s) - n + 1, Len(s))

(***************************************************************************)
(* Fetch, ack and inbox.                                                   *)
(***************************************************************************)
\* _fetch_room_messages: the positions of the room's messages, or the exception
_fetch_room_messages(r, resp) ==
    IF resp = "timeout" THEN [raised |-> TRUE, msgs |-> <<>>]       \* subprocess.TimeoutExpired
    ELSE IF resp = "blank" THEN [raised |-> FALSE, msgs |-> <<>>]   \* line 143
    ELSE IF resp = "nonjson" THEN [raised |-> TRUE, msgs |-> <<>>]  \* json.JSONDecodeError
    ELSE IF resp = "array" THEN [raised |-> TRUE, msgs |-> <<>>]    \* list has no .get
    ELSE IF resp = "nokey" THEN [raised |-> FALSE, msgs |-> <<>>]   \* the default []
    ELSE [raised |-> FALSE, msgs |-> [i \in 1..Len(ServerMsgs(r)) |-> i]]

\* the text main gives _post_ack
AckText ==
    <<"@">> \o OWNER_HANDLE \o <<" ", "[">> \o LStripChars(TARGET_HANDLE, {"@"}) \o <<"]">>
        \o <<" ", "s", "t", "a", "r", "t", "i", "n", "g", " ", "n", "o", "w", ".", " ", "I", " ", "w", "i", "l", "l", " ", "r", "e", "p", "o", "r", "t", " ", "b", "a", "c", "k", " ", "w", "h", "e", "n", " ", "f", "i", "n", "i", "s", "h", "e", "d", " ", "w", "i", "t", "h", " ", "r", "e", "s", "u", "l", "t", "s", ".">>

\* f"[{ts}] [{room}] {author_handle}: {body[:400]}"
FormatLine(ts, room, author_handle, body) ==
    <<"[">> \o ts \o <<"]", " ", "[">> \o room \o <<"]", " ">> \o author_handle
        \o <<":", " ">> \o Take(body, DISPLAY_LIMIT)

SEPARATOR == <<"-", "-", "-">>

RECURSIVE Reversed(_)
Reversed(s) == IF s = <<>> THEN <<>> ELSE Append(Reversed(Tail(s)), Head(s))

RECURSIVE WithSeparators(_)
\* f.write(nm + "\n---\n") for each nm
WithSeparators(s) ==
    IF s = <<>> THEN <<>> ELSE <<Head(s), SEPARATOR>> \o WithSeparators(Tail(s))

\* an inbox writer that forgets reversed()
InboxLinesInOrder(new_msgs) == WithSeparators(new_msgs)

\* what lines 194-196 append to the inbox file
InboxLines(new_msgs) == WithSeparators(Reversed(new_msgs))

\* a signal that does not look at the buffer
TerminalSignalAlwaysNew(new_msgs) == "NEW"

\* lines 193-199
TerminalSignal(new_msgs) == IF new_msgs # <<>> THEN "NEW" ELSE "NONE"

\* a message loop with acked.add(mid) of line 188 outside the if of line 182
HandleMessageAcksAccepted(st, r, i, outcome) ==
    LET msg == ServerMsgs(r)[i]
        mid == Strip(msg.id)
        handle == msg.from
        author_handle == IF msg.hasAuthor THEN msg.author ELSE handle
        body == Take(msg.body, BODY_LIMIT)
        ts == Take(msg.created_at, TS_LIMIT)
        skip == [seen |-> st.seen, acked |-> st.acked, new_msgs |-> st.new_msgs,
                 accepted |-> FALSE, posted |-> FALSE, raised |-> FALSE]
        marked == [skip EXCEPT !.seen = st.seen \cup {mid}]
        recorded == [marked EXCEPT
                        !.new_msgs = Append(st.new_msgs, FormatLine(ts, ROOMS[r], author_handle, body)),
                        !.accepted = TRUE]
    IN  IF mid = <<>> \/ mid \in st.seen THEN skip
        ELSE IF IsOwnMessage(handle, author_handle) THEN marked
        ELSE IF ~_passes_listen_filter(LISTEN_MODE, handle, author_handle, body) THEN marked
        ELSE IF ACK_ENABLED /\ mid \notin st.acked /\ _should_ack(handle, author_handle, body)
             THEN IF outcome = "timeout"
                  THEN [recorded EXCEPT !.posted = TRUE, !.raised = TRUE]
                  ELSE [recorded EXCEPT !.posted = TRUE, !.acked = st.acked \cup {mid}]
        ELSE [recorded EXCEPT !.acked = st.acked \cup {mid}]

\* a message loop that runs the listen filter before line 165 marks the message seen
HandleMessageFilterFirst(st, r, i, outcome) ==
    LET msg == ServerMsgs(r)[i]
        mid == Strip(msg.id)
        handle == msg.from
        author_handle == IF msg.hasAuthor THEN msg.author ELSE handle
        body == Take(msg.body, BODY_LIMIT)
        ts == Take(msg.created_at, TS_LIMIT)
        skip == [seen |-> st.seen, acked |-> st.acked, new_msgs |-> st.new_msgs,
                 accepted |-> FALSE, posted |-> FALSE, raised |-> FALSE]
        marked == [skip EXCEPT !.seen = st.seen \cup {mid}]
        recorded == [marked EXCEPT
                        !.new_msgs = Append(st.new_msgs, FormatLine(ts, ROOMS[r], author_handle, body)),
                        !.accepted = TRUE]
    IN  IF mid = <<>> \/ mid \in st.seen THEN skip
        ELSE IF IsOwnMessage(handle, author_handle) THEN marked
        ELSE IF ~_passes_listen_filter(LISTEN_MODE, handle, author_handle, body) THEN skip
        ELSE IF ACK_ENABLED /\ mid \notin st.acked /\ _should_ack(handle, author_handle, body)
             THEN IF outcome = "timeout"
                  THEN [recorded EXCEPT !.posted = TRUE, !.raised = TRUE]
                  ELSE [recorded EXCEPT !.posted = TRUE, !.acked = st.acked \cup {mid}]
        ELSE recorded

(***************************************************************************)
(* The body of main()'s inner loop, lines 162-188, for message i of room   *)
(* r: the new seen, acked and new_msgs, whether the message was accepted   *)
(* into new_msgs, whether _post_ack was called, and whether it raised.     *)
(***************************************************************************)
HandleMessage(st, r, i, outcome) ==
    LET msg == ServerMsgs(r)[i]
        mid == Strip(msg.id)
        handle == msg.from
        author_handle == IF msg.hasAuthor THEN msg.author ELSE handle
        body == Take(msg.body, BODY_LIMIT)
        ts == Take(msg.created_at, TS_LIMIT)
        skip == [seen |-> st.seen, acked |-> st.acked, new_msgs |-> st.new_msgs,
                 accepted |-> FALSE, posted |-> FALSE, raised |-> FALSE]
        marked == [skip EXCEPT !.seen = st.seen \cup {mid}]
        recorded == [marked EXCEPT
                        !.new_msgs = Append(st.new_msgs, FormatLine(ts, ROOMS[r], author_handle, body)),
                        !.accepted = TRUE]
    IN  IF mid = <<>> \/ mid \in st.seen THEN skip
        ELSE IF IsOwnMessage(handle, author_handle) THEN marked
        ELSE IF ~_passes_listen_filter(LISTEN_MODE, handle, author_handle, body) THEN marked
        ELSE IF ACK_ENABLED /\ mid \notin st.acked /\ _should_ack(handle, author_handle, body)
             THEN IF outcome = "timeout"
                  THEN [recorded EXCEPT !.posted = TRUE, !.raised = TRUE]
                  ELSE [recorded EXCEPT !.posted = TRUE, !.acked = st.acked \cup {mid}]
        ELSE recorded

(***************************************************************************)
(* Initial state: no invocation has started.                               *)
(***************************************************************************)
IdleProc ==
    [pc |-> "idle", seen |-> {}, acked |-> {}, new_msgs |-> <<>>, room |-> 1,
     msgs |-> <<>>, stdout |-> <<>>, exit |-> <<>>]

IdleHist ==
    [passes |-> 0, outcome |-> "none", prevOutcome |-> "none", abortCause |-> "none",
     lastResp |-> "none", allOk |-> TRUE, appended |-> 0, newSrc |-> <<>>,
     seenIns |-> <<>>, ackedIns |-> <<>>,
     start |-> [seen |-> {}, acked |-> {}, inbox |-> 0, posts |-> 0]]

\* no predicate is called on its own
NoProbe == [handle |-> <<>>, author_handle |-> <<>>, body |-> <<>>, fn |-> "none", result |-> FALSE]

InitFiles(nSeen, nAcked) ==
    /\ probe = NoProbe
    /\ SEEN_FILE = FileLines(Range(OldIds(nSeen)))
    /\ ACKED_FILE = FileLines(Range(OldIds(nAcked)))
    /\ fileOrder = [seen |-> OldIds(nSeen), acked |-> OldIds(nAcked)]
    /\ NEW_FILE = <<>>
    /\ inboxSrc = <<>>
    /\ posts = <<>>
    /\ proc = [p \in Procs |-> IdleProc]
    /\ hist = [p \in Procs |-> IdleHist]

\* Every configuration starts from empty id files; the default configuration, with
\* the owner's request in the first room, also starts from id files that earlier
\* passes have filled up to the retention bound.
Init ==
    /\ scene \in [RoomIdx -> 1..Len(MsgLists)]
    /\ \/ /\ API_KEY \in BOOLEAN
          /\ LISTEN_MODE \in LISTEN_MODES
          /\ ACK_ENABLED \in BOOLEAN
          /\ InitFiles(0, 0)
       \/ /\ scene[1] = 2
          /\ API_KEY \in BOOLEAN
          /\ LISTEN_MODE = "all"
          /\ ACK_ENABLED = TRUE
          /\ InitFiles(KeepLast, KeepLast)

(***************************************************************************)
(* The steps of one invocation.                                            *)
(***************************************************************************)
\* the top-level handler, lines 206-209: print("NONE"), exit status 0
Aborted(st) == [st EXCEPT !.pc = "exited", !.stdout = Append(@, "NONE"), !.exit = <<0>>]

AbortedHist(h, cause) == [h EXCEPT !.outcome = "aborted", !.abortCause = cause]

\* where the loops of lines 159 and 161 go once a message list is used up
AfterMessages(st, rest) ==
    IF rest # <<>> THEN [st EXCEPT !.msgs = rest]
    ELSE IF st.room < Len(ROOMS) THEN [st EXCEPT !.pc = "fetch", !.room = @ + 1, !.msgs = <<>>]
    ELSE [st EXCEPT !.pc = "save_seen", !.msgs = <<>>]

\* invocations the scheduler has started so far
PassesStarted == hist[1].passes + hist[2].passes

\* a start that skips the credential check of lines 150-153
StartWithoutKeyCheck(p) ==
    /\ proc[p].pc \in {"idle", "exited"}
    /\ PassesStarted < MaxPasses
    /\ proc' = [proc EXCEPT ![p] =
                  [IdleProc EXCEPT !.pc = "load_acked", !.seen = _load_id_set(SEEN_FILE)]]
    /\ hist' = [hist EXCEPT ![p] =
                  [IdleHist EXCEPT
                      !.passes = hist[p].passes + 1,
                      !.prevOutcome = hist[p].outcome,
                      !.outcome = "running",
                      !.seenIns = fileOrder.seen,
                      !.start = [seen |-> SEEN_FILE, acked |-> ACKED_FILE,
                                 inbox |-> Len(NEW_FILE), posts |-> Len(posts)]]]
    /\ UNCHANGED <<cfgvars, SEEN_FILE, ACKED_FILE, NEW_FILE, posts, inboxSrc, fileOrder>>

\* lines 149-155: the credential check and the load of the seen file
Start(p) ==
    /\ proc[p].pc \in {"idle", "exited"}
    /\ PassesStarted < MaxPasses
    /\ proc' = [proc EXCEPT ![p] =
                  IF ~API_KEY
                  THEN [IdleProc EXCEPT !.pc = "exited", !.stdout = <<"NONE">>, !.exit = <<0>>]
                  ELSE [IdleProc EXCEPT !.pc = "load_acked", !.seen = _load_id_set(SEEN_FILE)]]
    /\ hist' = [hist EXCEPT ![p] =
                  [IdleHist EXCEPT
                      !.passes = hist[p].passes + 1,
                      !.prevOutcome = hist[p].outcome,
                      !.outcome = IF ~API_KEY THEN "nokey" ELSE "running",
                      !.seenIns = IF ~API_KEY THEN <<>> ELSE fileOrder.seen,
                      !.start = [seen |-> SEEN_FILE, acked |-> ACKED_FILE,
                                 inbox |-> Len(NEW_FILE), posts |-> Len(posts)]]]
    /\ UNCHANGED <<cfgvars, SEEN_FILE, ACKED_FILE, NEW_FILE, posts, inboxSrc, fileOrder>>

\* lines 156-157
LoadAcked(p) ==
    /\ proc[p].pc = "load_acked"
    /\ proc' = [proc EXCEPT ![p] =
                  [@ EXCEPT !.pc = "fetch", !.acked = _load_id_set(ACKED_FILE),
                            !.new_msgs = <<>>, !.room = 1]]
    /\ hist' = [hist EXCEPT ![p] = [@ EXCEPT !.ackedIns = fileOrder.acked]]
    /\ UNCHANGED <<cfgvars, SEEN_FILE, ACKED_FILE, NEW_FILE, posts, inboxSrc, fileOrder>>

\* a fetch whose failure handler saves the seen set before the pass ends
FetchSavingOnFailure(p) ==
    /\ proc[p].pc = "fetch"
    /\ \E resp \in Responses :
          LET got == _fetch_room_messages(proc[p].room, resp)
          IN  /\ proc' = [proc EXCEPT ![p] =
                            IF got.raised THEN Aborted(@)
                            ELSE AfterMessages([@ EXCEPT !.pc = "msgs"], got.msgs)]
              /\ hist' = [hist EXCEPT ![p] =
                            IF got.raised
                            THEN AbortedHist([@ EXCEPT !.lastResp = resp, !.allOk = FALSE], "fetch")
                            ELSE [@ EXCEPT !.allOk = @ /\ resp = "ok"]]
              /\ IF got.raised
                 THEN \E kept \in _save_id_set(proc[p].seen, KeepLast) :
                         /\ SEEN_FILE' = FileLines(kept)
                         /\ fileOrder' = [fileOrder EXCEPT !.seen = Restrict(hist[p].seenIns, kept)]
                 ELSE UNCHANGED <<SEEN_FILE, fileOrder>>
    /\ UNCHANGED <<cfgvars, ACKED_FILE, NEW_FILE, posts, inboxSrc>>

\* line 160, and the handler of lines 206-209 when the fetch raises
Fetch(p) ==
    /\ proc[p].pc = "fetch"
    /\ \E resp \in Responses :
          LET got == _fetch_room_messages(proc[p].room, resp)
          IN  /\ proc' = [proc EXCEPT ![p] =
                            IF got.raised THEN Aborted(@)
                            ELSE AfterMessages([@ EXCEPT !.pc = "msgs"], got.msgs)]
              /\ hist' = [hist EXCEPT ![p] =
                            IF got.raised
                            THEN AbortedHist([@ EXCEPT !.lastResp = resp, !.allOk = FALSE], "fetch")
                            ELSE [@ EXCEPT !.allOk = @ /\ resp = "ok"]]
    /\ UNCHANGED <<cfgvars, SEEN_FILE, ACKED_FILE, NEW_FILE, posts, inboxSrc, fileOrder>>

\* lines 161-188 for the next message of the room
ProcessMsg(p) ==
    /\ proc[p].pc = "msgs"
    /\ proc[p].msgs # <<>>
    /\ \E outcome \in PostOutcomes :
          LET st == proc[p]
              i == Head(st.msgs)
              mid == Strip(ServerMsgs(st.room)[i].id)
              res == HandleMessage(st, st.room, i, outcome)
              after == [st EXCEPT !.seen = res.seen, !.acked = res.acked,
                                  !.new_msgs = res.new_msgs]
              src == [room |-> st.room, idx |-> i, mid |-> mid]
          IN  /\ proc' = [proc EXCEPT ![p] =
                            IF res.raised THEN Aborted(after)
                            ELSE AfterMessages(after, Tail(st.msgs))]
              /\ posts' = IF res.posted
                          THEN Append(posts, [room |-> ROOMS[st.room], text |-> AckText,
                                              src |-> src, by |-> p])
                          ELSE posts
              /\ hist' = [hist EXCEPT ![p] =
                            LET h1 == [@ EXCEPT
                                          !.newSrc = IF res.accepted THEN Append(@, src) ELSE @,
                                          !.seenIns = IF res.seen # st.seen THEN Append(@, mid) ELSE @,
                                          !.ackedIns = IF res.acked # st.acked THEN Append(@, mid) ELSE @]
                            IN  IF res.raised THEN AbortedHist(h1, "post") ELSE h1]
    /\ UNCHANGED <<cfgvars, SEEN_FILE, ACKED_FILE, NEW_FILE, inboxSrc, fileOrder>>

\* line 190
SaveSeen(p) ==
    /\ proc[p].pc = "save_seen"
    /\ \E io \in IoOutcomes :
          IF io = "oserror"
          THEN /\ proc' = [proc EXCEPT ![p] = Aborted(@)]
               /\ hist' = [hist EXCEPT ![p] = AbortedHist(@, "save")]
               /\ UNCHANGED <<SEEN_FILE, fileOrder>>
          ELSE \E kept \in _save_id_set(proc[p].seen, KeepLast) :
                  /\ SEEN_FILE' = FileLines(kept)
                  /\ fileOrder' = [fileOrder EXCEPT !.seen = Restrict(hist[p].seenIns, kept)]
                  /\ proc' = [proc EXCEPT ![p] = [@ EXCEPT !.pc = "save_acked"]]
                  /\ UNCHANGED hist
    /\ UNCHANGED <<cfgvars, ACKED_FILE, NEW_FILE, posts, inboxSrc>>

\* line 191
SaveAcked(p) ==
    /\ proc[p].pc = "save_acked"
    /\ \E io \in IoOutcomes :
          IF io = "oserror"
          THEN /\ proc' = [proc EXCEPT ![p] = Aborted(@)]
               /\ hist' = [hist EXCEPT ![p] = AbortedHist(@, "save")]
               /\ UNCHANGED <<ACKED_FILE, fileOrder>>
          ELSE \E kept \in _save_id_set(proc[p].acked, KeepLast) :
                  /\ ACKED_FILE' = FileLines(kept)
                  /\ fileOrder' = [fileOrder EXCEPT !.acked = Restrict(hist[p].ackedIns, kept)]
                  /\ proc' = [proc EXCEPT ![p] = [@ EXCEPT !.pc = "write_inbox"]]
                  /\ UNCHANGED hist
    /\ UNCHANGED <<cfgvars, SEEN_FILE, NEW_FILE, posts, inboxSrc>>

\* lines 193-200
WriteInbox(p) ==
    /\ proc[p].pc = "write_inbox"
    /\ \E io \in IoOutcomes :
          IF io = "oserror" /\ proc[p].new_msgs # <<>>
          THEN /\ proc' = [proc EXCEPT ![p] = Aborted(@)]
               /\ hist' = [hist EXCEPT ![p] = AbortedHist(@, "inbox")]
               /\ UNCHANGED <<NEW_FILE, inboxSrc>>
          ELSE /\ NEW_FILE' = NEW_FILE \o InboxLines(proc[p].new_msgs)
               /\ inboxSrc' = inboxSrc \o Reversed(hist[p].newSrc)
               /\ proc' = [proc EXCEPT ![p] =
                             [@ EXCEPT !.pc = "exited",
                                       !.stdout = Append(@, TerminalSignal(proc[p].new_msgs)),
                                       !.exit = <<0>>]]
               /\ hist' = [hist EXCEPT ![p] =
                             [@ EXCEPT !.outcome = IF hist[p].allOk THEN "clean" ELSE "completed",
                                       !.appended = Len(proc[p].new_msgs)]]
    /\ UNCHANGED <<cfgvars, SEEN_FILE, ACKED_FILE, posts, fileOrder>>

Pass(p) ==
    \/ Start(p)
    \/ LoadAcked(p)
    \/ Fetch(p)
    \/ ProcessMsg(p)
    \/ SaveSeen(p)
    \/ SaveAcked(p)
    \/ WriteInbox(p)

\* the scheduler runs one invocation after another
Next == Pass(1)

Spec == Init /\ [][Next]_vars

(***************************************************************************)
(* Overlapping invocations: the scheduler starts a second invocation       *)
(* while the first is still running.  Nothing in the script serialises     *)
(* them (no lock file, no atomic rename), so their steps interleave.       *)
(***************************************************************************)
InitOverlap ==
    /\ scene \in [RoomIdx -> 1..Len(MsgLists)]
    /\ API_KEY = TRUE
    /\ LISTEN_MODE = "all"
    /\ ACK_ENABLED = TRUE
    /\ InitFiles(0, 0)

NextOverlap == \E p \in Procs : Pass(p)

SpecOverlap == InitOverlap /\ [][NextOverlap]_vars

(***************************************************************************)
(* The predicates called on their own: Init draws the arguments, a step    *)
(* applies _should_ack or _passes_listen_filter to them and records the    *)
(* value returned.                                                         *)
(***************************************************************************)
\* sender handles: the owner, the owner inside a longer handle, a self-handle, others, none
ProbeHandles ==
    { <<"p", "e", "t", "r", "u", "s">>,
      <<"P", "e", "t", "r", "u", "s", ".", "V">>,
      <<"@", "c", "l", "a", "u", "d", "e", "m", "m">>,
      <<"a", "l", "i", "c", "e">>,
      <<"@", "B", "u", "i", "l", "d", "B", "o", "t">>,
      <<>> }

\* author handles: none, the owner in capitals, others, a configured bot
ProbeAuthors ==
    { <<>>,
      <<"P", "E", "T", "R", "U", "S">>,
      <<"b", "o", "b">>,
      <<"b", "u", "i", "l", "d", "b", "o", "t">>,
      <<"@", "a", "l", "i", "c", "e">> }

\* bodies: with and without hint phrases, without mentions, with self and other mentions
ProbeBodies ==
    { <<"p", "e", "t", "r", "u", "s", ":", " ", "c", "a", "n", " ", "y", "o", "u", " ", "d", "e", "p", "l", "o", "y", " ", "t", "h", "e", " ", "f", "i", "x">>,
      <<"@", "o", "t", "h", "e", "r", "b", "o", "t", " ", "p", "l", "e", "a", "s", "e", " ", "d", "e", "p", "l", "o", "y">>,
      <<"j", "u", "s", "t", " ", "s", "a", "y", "i", "n", "g", " ", "h", "i">>,
      <<"@", "C", "l", "a", "u", "d", "e", "M", "M", " ", "P", "l", "e", "a", "s", "e", " ", "R", "u", "n">>,
      <<"@", "c", "l", "a", "u", "d", "e", "m", "m", ".", " ", "p", "l", "e", "a", "s", "e">>,
      <<" ", " ">>,
      <<>>,
      <<"@", "o", "t", "h", "e", "r", "b", "o", "t", " ", "@", "c", "l", "a", "u", "d", "e", "m", "m", " ", "f", "i", "x">>,
      <<"h", "i", " ", "@", "c", "l", "a", "u", "d", "e", "m", "m">>,
      <<"@", " ", "p", "l", "e", "a", "s", "e">>,
      <<"@", "@", "c", "l", "a", "u", "d", "e", "m", "m", " ", "t", "e", "s", "t">> }

InitPure ==
    /\ scene = [r \in RoomIdx |-> 1]
    /\ API_KEY = TRUE
    /\ LISTEN_MODE \in LISTEN_MODES
    /\ ACK_ENABLED = TRUE
    /\ SEEN_FILE = {}
    /\ ACKED_FILE = {}
    /\ fileOrder = [seen |-> <<>>, acked |-> <<>>]
    /\ NEW_FILE = <<>>
    /\ inboxSrc = <<>>
    /\ posts = <<>>
    /\ proc = [p \in Procs |-> IdleProc]
    /\ hist = [p \in Procs |-> IdleHist]
    /\ \E h \in ProbeHandles : \E a \in ProbeAuthors : \E b \in ProbeBodies :
          probe = [handle |-> h, author_handle |-> a, body |-> b, fn |-> "input", result |-> FALSE]

\* lines 107-113 applied to the arguments
ApplyShouldAck ==
    /\ probe.fn = "input"
    /\ probe' = [probe EXCEPT !.fn = "_should_ack",
                              !.result = _should_ack(probe.handle, probe.author_handle, probe.body)]
    /\ UNCHANGED <<API_KEY, LISTEN_MODE, ACK_ENABLED, scene, SEEN_FILE, ACKED_FILE, NEW_FILE,
                   proc, posts, inboxSrc, fileOrder, hist>>

\* lines 75-88 applied to the arguments, under the configured LISTEN_MODE
ApplyListenFilter ==
    /\ probe.fn = "input"
    /\ probe' = [probe EXCEPT !.fn = "_passes_listen_filter",
                              !.result = _passes_listen_filter(LISTEN_MODE, probe.handle,
                                                               probe.author_handle, probe.body)]
    /\ UNCHANGED <<API_KEY, LISTEN_MODE, ACK_ENABLED, scene, SEEN_FILE, ACKED_FILE, NEW_FILE,
                   proc, posts, inboxSrc, fileOrder, hist>>

NextPure == ApplyShouldAck \/ ApplyListenFilter

SpecPure == InitPure /\ [][NextPure]_vars

(***************************************************************************)
(* Properties.                                                             *)
(***************************************************************************)
\* the messages of the scene: room index and position
MsgKeys == UNION { { <<r, i>> : i \in 1..Len(ServerMsgs(r)) } : r \in RoomIdx }

\* the handles of line 167-168 for a message of the scene
HandleOf(k) == ServerMsgs(k[1])[k[2]].from
AuthorOf(k) ==
    IF ServerMsgs(k[1])[k[2]].hasAuthor THEN ServerMsgs(k[1])[k[2]].author ELSE HandleOf(k)

\* sender or author handle equals a configured self-handle
SentBySelf(k) ==
    \E h \in 1..Len(MY_HANDLES) : MY_HANDLES[h] = HandleOf(k) \/ MY_HANDLES[h] = AuthorOf(k)

Completed(p) == proc[p].pc = "exited" /\ hist[p].outcome \in {"clean", "completed"}

\* C1: over any number of passes on a static message set, _post_ack is invoked at
\* most once for every message identifier, also when a post attempt times out or a
\* later fetch of the same pass fails.
C1_AtMostOneAckAttempt ==
    \A i, j \in 1..Len(posts) : posts[i].src.mid = posts[j].src.mid => i = j

\* C2: over any number of passes on a static message set, aborted passes included,
\* the inbox log holds at most one entry for every message identifier.
C2_AtMostOnceSurfacing ==
    \A i, j \in 1..Len(inboxSrc) : inboxSrc[i].mid = inboxSrc[j].mid => i = j

\* C3: a pass that follows a completed pass over the same messages (every fetch of
\* the first pass answered with the room's messages) prints NONE, appends nothing to
\* the inbox, posts no ack, and leaves the content of the seen and acked files as the
\* first pass left it.
C3_Idempotence ==
    \A p \in Procs :
        (proc[p].pc = "exited" /\ hist[p].prevOutcome = "clean" /\ hist[p].outcome # "aborted")
            => /\ proc[p].stdout = <<"NONE">>
               /\ Len(NEW_FILE) = hist[p].start.inbox
               /\ Len(posts) = hist[p].start.posts
               /\ _load_id_set(SEEN_FILE) = _load_id_set(hist[p].start.seen)
               /\ _load_id_set(ACKED_FILE) = _load_id_set(hist[p].start.acked)

\* C4: whenever the in-memory set holds more than keep_last identifiers at save time,
\* the saved file holds exactly keep_last identifiers and they are the keep_last most
\* recently inserted ones.
C4_RetentionFifo ==
    [][\A p \in Procs :
          /\ (proc[p].pc = "save_seen" /\ proc'[p].pc = "save_acked"
                /\ Cardinality(proc[p].seen) > KeepLast)
               => /\ Cardinality(_load_id_set(SEEN_FILE')) = KeepLast
                  /\ _load_id_set(SEEN_FILE') = Range(LastN(hist[p].seenIns, KeepLast))
          /\ (proc[p].pc = "save_acked" /\ proc'[p].pc = "write_inbox"
                /\ Cardinality(proc[p].acked) > KeepLast)
               => /\ Cardinality(_load_id_set(ACKED_FILE')) = KeepLast
                  /\ _load_id_set(ACKED_FILE') = Range(LastN(hist[p].ackedIns, KeepLast))
      ]_vars

\* C5: under every listen policy, a message whose sender handle or author handle
\* equals a configured self-handle is never put in new_msgs or the inbox log and never
\* causes a call of _post_ack (the call that precedes the addition of its id to acked).
C5_SelfFilter ==
    \A k \in MsgKeys :
        SentBySelf(k) =>
            /\ \A i \in 1..Len(inboxSrc) : <<inboxSrc[i].room, inboxSrc[i].idx>> # k
            /\ \A i \in 1..Len(posts) : <<posts[i].src.room, posts[i].src.idx>> # k
            /\ \A p \in Procs : \A i \in 1..Len(hist[p].newSrc) :
                  <<hist[p].newSrc[i].room, hist[p].newSrc[i].idx>> # k
            /\ \A p \in Procs : \A i \in 1..Len(proc[p].new_msgs) :
                  proc[p].new_msgs[i] #
                      FormatLine(Take(ServerMsgs(k[1])[k[2]].created_at, TS_LIMIT), ROOMS[k[1]],
                                 AuthorOf(k), Take(ServerMsgs(k[1])[k[2]].body, BODY_LIMIT))

\* C5 witness: a pass has completed and surfaced something while a self message of the
\* scene was fetched and marked seen.
C5_Witness ==
    /\ Completed(1)
    /\ hist[1].outcome = "clean"
    /\ NEW_FILE # <<>>
    /\ LISTEN_MODE = "tagged"
    /\ \E k \in MsgKeys : SentBySelf(k) /\ Strip(ServerMsgs(k[1])[k[2]].id) \in proc[1].seen

\* C6: a failure of the ack post (curl error or timeout) does not abort the pass: the
\* pass is not ended by the post, and the identifier is in acked after the call.
C6_AckFailureKeepsPass ==
    \A p \in Procs :
        /\ hist[p].abortCause # "post"
        /\ \A i \in 1..Len(posts) :
              (i > hist[p].start.posts /\ posts[i].by = p /\ proc[p].pc # "idle")
                  => posts[i].src.mid \in proc[p].acked

\* C7: when two passes overlap (each invocation has run one pass, and no pass was
\* ended by an exception), every identifier is surfaced at most once and acknowledged
\* at most once, and once both have completed no identifier either pass recorded is
\* missing from the seen and acked files.
C7_OverlapSafe ==
    (\A p \in Procs : hist[p].passes = 1 /\ hist[p].abortCause = "none")
        => /\ \A i, j \in 1..Len(inboxSrc) : inboxSrc[i].mid = inboxSrc[j].mid => i = j
           /\ \A i, j \in 1..Len(posts) : posts[i].src.mid = posts[j].src.mid => i = j
           /\ (\A p \in Procs : Completed(p))
                 => \A p \in Procs : /\ proc[p].seen \subseteq _load_id_set(SEEN_FILE)
                                     /\ proc[p].acked \subseteq _load_id_set(ACKED_FILE)

\* C8: every invocation exits with status 0 and prints exactly one line, its last
\* output; the line is NEW iff the pass appended to the inbox log, else NONE.  Nothing
\* is printed and no status is set before the exit.
C8_TerminalSignal ==
    \A p \in Procs :
        /\ proc[p].pc = "exited"
              => /\ proc[p].exit = <<0>>
                 /\ Len(proc[p].stdout) = 1
                 /\ proc[p].stdout[1] \in {"NEW", "NONE"}
                 /\ proc[p].stdout[1] = "NEW" <=> Len(NEW_FILE) > hist[p].start.inbox
        /\ proc[p].pc # "exited" => proc[p].stdout = <<>> /\ proc[p].exit = <<>>

\* C8 witness: passes that ended with NEW and with NONE after an abort.
C8_Witness ==
    /\ proc[1].pc = "exited"
    /\ proc[1].stdout = <<"NEW">>
    /\ hist[1].prevOutcome = "aborted"

\* C9: the step that writes the inbox appends the buffered lines m1..mn, which are in
\* discovery order (by room, then by position in the fetch), as mn, ..., m1, each
\* followed by the separator line, after the lines already in the log, which stay.
C9_ReversedAppend ==
    [][\A p \in Procs :
          (proc[p].pc = "write_inbox" /\ Completed(p)')
              => LET buf == proc[p].new_msgs
                     src == hist[p].newSrc
                     n == Len(buf)
                     base == Len(NEW_FILE)
                 IN  /\ Len(src) = n
                     /\ \A a, b \in 1..n :
                           a < b => \/ src[a].room < src[b].room
                                    \/ src[a].room = src[b].room /\ src[a].idx < src[b].idx
                     /\ Len(NEW_FILE') = base + 2 * n
                     /\ SubSeq(NEW_FILE', 1, base) = NEW_FILE
                     /\ \A k \in 1..n :
                           /\ NEW_FILE'[base + 2 * k - 1] = buf[n + 1 - k]
                           /\ NEW_FILE'[base + 2 * k] = SEPARATOR
                           /\ inboxSrc'[Len(inboxSrc) + k] = src[n + 1 - k]
      ]_vars

\* C9 witness: a pass appended two or more entries to a log that already had entries.
C9_Witness ==
    /\ Completed(1)
    /\ hist[1].appended >= 2
    /\ Len(NEW_FILE) > 2 * hist[1].appended

\* C10: an empty or malformed fetch response (blank output, text that is not JSON,
\* JSON that is not an object with a messages list) yields an empty message list
\* without raising, so no pass is ended by such a response.
C10_FetchTolerance ==
    \A p \in Procs :
        hist[p].abortCause = "fetch" => hist[p].lastResp \notin {"blank", "nonjson", "array", "nokey"}

\* the ids of the messages of the rooms before room r
IdsBeforeRoom(r) == { Strip(ServerMsgs(k[1])[k[2]].id) : k \in { x \in MsgKeys : x[1] < r } }

\* C11: seen and acked are persisted after each room, so when an exception ends the
\* pass while room k is handled, every identifier marked seen or acked while the rooms
\* before k were processed is already in the seen / acked file.
C11_PersistAfterEveryChannel ==
    \A p \in Procs :
        (proc[p].pc = "exited" /\ hist[p].abortCause \in {"fetch", "post"})
            => /\ (proc[p].seen \cap IdsBeforeRoom(proc[p].room)) \subseteq _load_id_set(SEEN_FILE)
               /\ (proc[p].acked \cap IdsBeforeRoom(proc[p].room)) \subseteq _load_id_set(ACKED_FILE)

\* C12: with no credential configured a pass prints NONE and returns 0 in one step: it
\* loads nothing (its seen and acked sets stay empty), fetches no room, posts no ack,
\* and leaves the seen file, the acked file and the inbox log as they were.
C12_MissingConfigNoOp ==
    [][~API_KEY =>
          /\ SEEN_FILE' = SEEN_FILE
          /\ ACKED_FILE' = ACKED_FILE
          /\ NEW_FILE' = NEW_FILE
          /\ posts' = posts
          /\ fileOrder' = fileOrder
          /\ \A p \in Procs :
                /\ proc'[p].pc \in {"idle", "exited"}
                /\ proc'[p].seen = {}
                /\ proc'[p].acked = {}
                /\ proc'[p].msgs = <<>>
                /\ proc'[p].new_msgs = <<>>
                /\ proc'[p].pc = "exited" =>
                      (proc'[p].stdout = <<"NONE">> /\ proc'[p].exit = <<0>>)]_vars

\* a second pass without a credential has ended while the seen file holds identifiers
C12_Witness ==
    \E p \in Procs :
        /\ ~API_KEY
        /\ proc[p].pc = "exited"
        /\ hist[p].passes = 2
        /\ hist[p].outcome = "nokey"
        /\ _load_id_set(SEEN_FILE) # {}
        /\ proc[p].stdout = <<"NONE">>

\* identifier and body of a message of the scene, as lines 162 and 173 read them
MidOf(k) == Strip(ServerMsgs(k[1])[k[2]].id)
BodyOf(k) == Take(ServerMsgs(k[1])[k[2]].body, BODY_LIMIT)

\* a message with a non-empty id that the listen filter of line 177 rejects
FailsListenFilter(k) ==
    /\ MidOf(k) # <<>>
    /\ ~_passes_listen_filter(LISTEN_MODE, HandleOf(k), AuthorOf(k), BodyOf(k))

\* C13: a message with a non-empty id that fails the listen filter is marked seen by the
\* step that handles it, adds nothing to new_msgs, posts no ack and is not acked; it is
\* never surfaced or acknowledged, and a pass that loaded its id from the seen file
\* surfaces and acknowledges no message with that id.
C13_FilteredOutIsTerminal ==
    [][/\ \A p \in Procs :
            (proc[p].pc = "msgs" /\ proc[p].msgs # <<>> /\ proc'[p] # proc[p]
                /\ FailsListenFilter(<<proc[p].room, Head(proc[p].msgs)>>))
              => /\ MidOf(<<proc[p].room, Head(proc[p].msgs)>>) \in proc'[p].seen
                 /\ proc'[p].new_msgs = proc[p].new_msgs
                 /\ proc'[p].acked = proc[p].acked
                 /\ posts' = posts
       /\ \A k \in MsgKeys :
            FailsListenFilter(k)
              => /\ \A i \in 1..Len(inboxSrc') :
                        ~(inboxSrc'[i].room = k[1] /\ inboxSrc'[i].idx = k[2])
                 /\ \A i \in 1..Len(posts') :
                        ~(posts'[i].src.room = k[1] /\ posts'[i].src.idx = k[2])
                 /\ \A p \in Procs :
                        MidOf(k) \in _load_id_set(hist'[p].start.seen)
                          => /\ \A i \in 1..Len(hist'[p].newSrc) :
                                    hist'[p].newSrc[i].mid # MidOf(k)
                             /\ \A i \in (hist'[p].start.posts + 1)..Len(posts') :
                                    posts'[i].by = p => posts'[i].src.mid # MidOf(k)
                             /\ MidOf(k) \notin (proc'[p].acked \ _load_id_set(hist'[p].start.acked))]_vars

\* a second pass has completed after the first one persisted the id of a message that
\* failed the listen filter, and the id is still in the seen file
C13_Witness ==
    \E p \in Procs : \E k \in MsgKeys :
        /\ FailsListenFilter(k)
        /\ ~SentBySelf(k)
        /\ Completed(p)
        /\ hist[p].passes = 2
        /\ MidOf(k) \in _load_id_set(hist[p].start.seen)
        /\ MidOf(k) \in _load_id_set(SEEN_FILE)
        /\ NEW_FILE # <<>>

\* C14: while a pass runs its seen set only grows; the seen file changes only at the
\* save of line 190, and when the seen set holds at most KeepLast identifiers that save
\* keeps every identifier the file held; the empty identifier is never in a seen set
\* or in the seen file.
C14_SeenNeverReverts ==
    [][/\ \A p \in Procs :
            /\ (proc[p].pc \notin {"idle", "exited"}) => proc[p].seen \subseteq proc'[p].seen
            /\ <<>> \notin proc'[p].seen
            /\ (proc[p].pc = "save_seen" /\ proc'[p].pc = "save_acked"
                    /\ Cardinality(proc[p].seen) <= KeepLast)
                 => /\ _load_id_set(SEEN_FILE) \subseteq _load_id_set(SEEN_FILE')
                    /\ _load_id_set(SEEN_FILE') = proc[p].seen
       /\ (\A p \in Procs : proc[p].pc # "save_seen") => SEEN_FILE' = SEEN_FILE
       /\ <<>> \notin _load_id_set(SEEN_FILE')]_vars

\* a second pass has completed within the retention bound: the seen file kept the
\* identifiers it held and gained one, and a message with a blank id was fetched
C14_Witness ==
    \E p \in Procs : \E k \in MsgKeys :
        /\ Completed(p)
        /\ hist[p].passes = 2
        /\ MidOf(k) = <<>>
        /\ _load_id_set(hist[p].start.seen) # {}
        /\ _load_id_set(hist[p].start.seen) \subseteq _load_id_set(SEEN_FILE)
        /\ _load_id_set(hist[p].start.seen) # _load_id_set(SEEN_FILE)
        /\ Cardinality(proc[p].seen) <= KeepLast

\* for each listen mode and each message of MsgLists: the message is not from a
\* self-handle (line 170), passes the listen filter (line 177) and satisfies
\* _should_ack (line 182)
AckEligible ==
    [mode \in LISTEN_MODES |->
        [l \in 1..Len(MsgLists) |->
            [i \in 1..Len(MsgLists[l]) |->
                LET msg == MsgLists[l][i]
                    handle == msg.from
                    author_handle == IF msg.hasAuthor THEN msg.author ELSE handle
                    body == Take(msg.body, BODY_LIMIT)
                IN  /\ \A h \in 1..Len(MY_HANDLES) :
                          MY_HANDLES[h] # handle /\ MY_HANDLES[h] # author_handle
                    /\ _passes_listen_filter(mode, handle, author_handle, body)
                    /\ _should_ack(handle, author_handle, body)]]]

\* post i of the behaviour is the call of _post_ack for a message with identifier m
\* that is not from a self-handle, passes the listen filter and satisfies _should_ack
PostedFor(i, m) ==
    /\ posts[i].src.mid = m
    /\ MidOf(<<posts[i].src.room, posts[i].src.idx>>) = m
    /\ AckEligible[LISTEN_MODE][scene[posts[i].src.room]][posts[i].src.idx]

\* C15: in every reachable state, every identifier in an acked set or in the acked file
\* that was not already in the file before the first pass has a call of _post_ack made
\* for it, with acknowledgment enabled, for a message that passed the self-filter and
\* the listen filter and satisfied _should_ack.
C15_AckedInvariant ==
    \A p \in Procs :
        \A m \in (proc[p].acked \cup _load_id_set(ACKED_FILE)) \ Range(OldIds(KeepLast)) :
            /\ ACK_ENABLED
            /\ \E i \in 1..Len(posts) : PostedFor(i, m)

\* a second pass has completed and the acked file still holds the identifier of a
\* message acknowledged by the first pass
C15_Witness ==
    \E p \in Procs : \E i \in 1..Len(posts) :
        /\ Completed(p)
        /\ hist[p].passes = 2
        /\ i <= hist[p].start.posts
        /\ PostedFor(i, posts[i].src.mid)
        /\ posts[i].src.mid \in _load_id_set(hist[p].start.acked)
        /\ posts[i].src.mid \in _load_id_set(ACKED_FILE)
        /\ posts[i].src.mid \in proc[p].acked

\* a message that its own room alone would surface: non-empty id, not from a
\* self-handle, passes the listen filter, first message of its room with that id
SurfacedByOwnRoom(k) ==
    /\ MidOf(k) # <<>>
    /\ ~SentBySelf(k)
    /\ _passes_listen_filter(LISTEN_MODE, HandleOf(k), AuthorOf(k), BodyOf(k))
    /\ \A j \in 1..(k[2] - 1) : MidOf(<<k[1], j>>) # MidOf(k)

\* C16: rooms are processed independently: when the first pass starts with empty seen
\* and acked files and completes with every fetch answered, each room's surfaced
\* messages are the ones its own message list determines, whatever the other rooms
\* returned; a message is not dropped because another room had the same identifier.
C16_ChannelsIndependent ==
    \A p \in Procs :
        (Completed(p) /\ hist[p].passes = 1 /\ hist[p].outcome = "clean"
            /\ hist[p].start.seen = {} /\ hist[p].start.acked = {})
          => \A k \in MsgKeys :
                SurfacedByOwnRoom(k)
                  <=> \E i \in 1..Len(inboxSrc) :
                         inboxSrc[i].room = k[1] /\ inboxSrc[i].idx = k[2]

\* the owner identifier occurs in s, compared without regard to case
OwnerIn(s) ==
    \E o \in 0..Len(s) :
        /\ o + Len(OWNER_HANDLE) <= Len(s)
        /\ \A j \in 1..Len(OWNER_HANDLE) : LowerChar(s[o + j]) = OWNER_HANDLE[j]

\* the @mentions of a text, as pairs <<a, b>>: an "@" at a, followed up to b by the
\* longest run of letters, digits, "_", "." and "-", which is not empty
MentionSpans(text) ==
    { sp \in (1..Len(text)) \X (1..Len(text)) :
        /\ sp[1] < sp[2]
        /\ text[sp[1]] = "@"
        /\ \A i \in (sp[1] + 1)..sp[2] : text[i] \in MentionChars
        /\ (sp[2] = Len(text) \/ text[sp[2] + 1] \notin MentionChars) }

\* the mention at sp, lowercased, is a self-handle without its sigil
SpanIsSelf(text, sp) ==
    \E h \in MyShort :
        /\ Len(h) = sp[2] - sp[1]
        /\ \A j \in 1..Len(h) : LowerChar(text[sp[1] + j]) = h[j]

\* the trimmed body is not empty and, lowercased, contains a task-hint phrase
HintIn(body) ==
    LET text == Strip(body)
    IN  /\ text # <<>>
        /\ \E hint \in TASK_HINTS : \E o \in 0..Len(text) :
              /\ o + Len(hint) <= Len(text)
              /\ \A j \in 1..Len(hint) : LowerChar(text[o + j]) = hint[j]

\* C17: _should_ack(handle, author_handle, body) is true if and only if the owner
\* identifier is a case-insensitive substring of the sender or author handle, and the
\* body has no @mention at all or one of its mentions is a self-handle, and the trimmed
\* lowercased body is non-empty and contains a task-hint phrase; so an owner body with a
\* hint and no mention is actionable, an owner body that mentions only other handles is
\* not, and a body without a hint phrase is not.
C17_TaskDetection ==
    (probe.fn = "_should_ack")
      => LET fromOwner == OwnerIn(probe.handle) \/ OwnerIn(probe.author_handle)
             spans == MentionSpans(probe.body)
             selfMentioned == \E sp \in spans : SpanIsSelf(probe.body, sp)
         IN  /\ probe.result <=> (fromOwner /\ (spans = {} \/ selfMentioned) /\ HintIn(probe.body))
             /\ (fromOwner /\ spans = {} /\ HintIn(probe.body)) => probe.result
             /\ (spans # {} /\ ~selfMentioned) => ~probe.result
             /\ ~HintIn(probe.body) => ~probe.result

\* _should_ack has returned true for an owner's body with a hint and no mention
C17_Witness ==
    /\ probe.fn = "_should_ack"
    /\ probe.result
    /\ OwnerIn(probe.author_handle)
    /\ ~OwnerIn(probe.handle)
    /\ MentionSpans(probe.body) = {}
    /\ HintIn(probe.body)

\* the sender is classified as a bot: the handle starts with "@", or the author handle
\* (the sender handle when there is none), lowercased and without leading "@", is a
\* configured bot handle, lowercased and without leading "@"
ClassifiedBot(handle, author_handle) ==
    LET who == IF author_handle # <<>> THEN author_handle ELSE handle
        Norm(s) == LStripChars([i \in 1..Len(s) |-> LowerChar(s[i])], {"@"})
    IN  \/ (Len(handle) >= 1 /\ handle[1] = "@")
        \/ \E i \in 1..Len(BOT_HANDLES) : Norm(who) = Norm(BOT_HANDLES[i])

\* C18: _passes_listen_filter is true for every message under mode all and under a mode
\* it does not know; under humans it is true iff the sender is not classified as a bot;
\* under tagged iff one of the body's @mentions is a self-handle (lowercased, without
\* sigil), so a body that mentions only other handles does not pass; under owner iff
\* the owner identifier is a case-insensitive substring of the sender or author handle.
C18_ListenPolicy ==
    (probe.fn = "_passes_listen_filter")
      => LET spans == MentionSpans(probe.body)
             selfMentioned == \E sp \in spans : SpanIsSelf(probe.body, sp)
         IN  /\ LISTEN_MODE \notin {"humans", "tagged", "owner"} => probe.result
             /\ LISTEN_MODE = "humans"
                  => (probe.result <=> ~ClassifiedBot(probe.handle, probe.author_handle))
             /\ LISTEN_MODE = "tagged" => (probe.result <=> selfMentioned)
             /\ (LISTEN_MODE = "tagged" /\ spans # {} /\ ~selfMentioned) => ~probe.result
             /\ LISTEN_MODE = "owner"
                  => (probe.result <=> (OwnerIn(probe.handle) \/ OwnerIn(probe.author_handle)))

\* the filter has let a message through under a mode that is none of the four it knows
C18_Witness ==
    /\ probe.fn = "_passes_listen_filter"
    /\ LISTEN_MODE \notin {"all", "humans", "tagged", "owner"}
    /\ probe.result
    /\ ClassifiedBot(probe.handle, probe.author_handle)
    /\ MentionSpans(probe.body) # {}
    /\ ~OwnerIn(probe.handle)

\* C19: when a pass ends early because a fetch or an ack post raised, the seen file, the
\* acked file and the inbox log are what they were when the pass started, while the
\* acks the pass posted before the failure remain posted.
C19_AbortedPassKeepsFiles ==
    \A p \in Procs :
        (proc[p].pc = "exited" /\ hist[p].outcome = "aborted"
            /\ hist[p].abortCause \in {"fetch", "post"})
          => /\ SEEN_FILE = hist[p].start.seen
             /\ ACKED_FILE = hist[p].start.acked
             /\ Len(NEW_FILE) = hist[p].start.inbox
             /\ Len(posts) >= hist[p].start.posts
             /\ proc[p].stdout = <<"NONE">>
             /\ proc[p].exit = <<0>>

\* a fetch has raised after the pass marked a message seen and posted its ack, and the
\* non-empty seen file does not hold that message's id
C19_Witness ==
    \E p \in Procs :
        /\ proc[p].pc = "exited"
        /\ hist[p].abortCause = "fetch"
        /\ Len(posts) > hist[p].start.posts
        /\ SEEN_FILE # {}
        /\ SEEN_FILE = hist[p].start.seen
        /\ ~(proc[p].seen \subseteq _load_id_set(SEEN_FILE))
        /\ ~(proc[p].acked \subseteq _load_id_set(ACKED_FILE))

\* no other message of the scene has the identifier of message k
UniqueMid(k) == \A k2 \in MsgKeys : k2 # k => MidOf(k2) # MidOf(k)

====
